---- MODULE Spec2Model ----
(***************************************************************************)
(* httpfile: the deduplicating store (dedupStore), its chunker (doRoll),   *)
(* its reader (chunkedReader) and the filesystem they work on.             *)
(*                                                                         *)
(* Strings.  A string is a sequence of tokens.  The 64 hex characters of   *)
(* a 32-byte value are ONE token with two fields: hd, the first two        *)
(* characters, and tl, the remaining 62 ones; "\n" is the token NL.  So    *)
(* s[:2] is s[1].hd and s[2:] is s[1].tl, and both need a non-empty s.     *)
(* Paths are sequences of components below the store's root.              *)
(***************************************************************************)
EXTENDS Integers, Sequences, FiniteSets, TLC

(***************************************************************************)
(* Bounds of the model.                                                    *)
(***************************************************************************)
MaxOps == 4
MaxParOps == 2
MaxFaults == 1
MaxReads == 2
MaxReqs == 3
FanOut == 2

Procs == {1, 2}

(***************************************************************************)
(* RollSum (rollsum.go is not among the sources; the definitions follow    *)
(* section 4.1 of the specification and the names the test file uses).     *)
(***************************************************************************)
windowSize == 64
charOffset == 31
blobBits == 13
blobSize == 2 ^ blobBits

RECURSIVE SumTo(_)
SumTo(n) == IF n = 0 THEN 0 ELSE n + SumTo(n - 1)

\* A = sum of (w_i + C), B = sum of (W - i)(w_i + C) over a window of zeros.
NewRollSum ==
  [s1 |-> windowSize * charOffset,
   s2 |-> charOffset * SumTo(windowSize),
   window |-> [i \in 1..windowSize |-> 0],
   wofs |-> 0]

\* a sum over all the bytes rolled: the byte that leaves the window stays in
RollAll(rs, ch) ==
  [s1 |-> rs.s1 + ch,
   s2 |-> rs.s2 + rs.s1 + ch,
   window |-> [rs.window EXCEPT ![rs.wofs + 1] = ch],
   wofs |-> (rs.wofs + 1) % windowSize]

\* A <- A - d + x; B <- B - W(d + C) + A.  With W = 64 and bytes below 256
\* neither accumulator leaves 0..2^32-1, so the reduction modulo 2^32 never
\* acts.
Roll(rs, ch) ==
  LET drop == rs.window[rs.wofs + 1]
      a == rs.s1 + ch - drop
  IN [s1 |-> a,
      s2 |-> rs.s2 - windowSize * (drop + charOffset) + a,
      window |-> [rs.window EXCEPT ![rs.wofs + 1] = ch],
      wofs |-> (rs.wofs + 1) % windowSize]

\* (A & 0xFFFF) | (B << 16), as the pair of its 16-bit halves.
Digest(rs) == [lo |-> rs.s1 % 65536, hi |-> rs.s2 % 65536]

\* a split every windowSize bytes, wherever the content puts it
OnSplitFixed(rs) == rs.wofs = 25

OnSplit(rs) == Digest(rs).lo % blobSize = blobSize - 1

(***************************************************************************)
(* Bytes, digests, hex strings.                                            *)
(***************************************************************************)
RECURSIVE SumBytes(_)
SumBytes(s) ==
  IF s = <<>> THEN 0
  ELSE IF Len(s) = 1 THEN s[1]
  ELSE LET half == Len(s) \div 2
       IN SumBytes(SubSeq(s, 1, half)) + SumBytes(SubSeq(s, half + 1, Len(s)))

\* sha256.Sum256: a collision-free function of the content.  The value is
\* opaque; its first byte (the fan-out of its hex form) is a function of it.
Sha256(content) == [alg |-> "sha256", pre |-> content]

\* The 32 bytes rand.Read draws.
RandomBytes(n) == [alg |-> "rand", pre |-> <<n>>]

FirstByte(v) ==
  IF v.alg = "rand" THEN v.pre[1] % FanOut
  ELSE (Len(v.pre) + SumBytes(v.pre)) % FanOut

\* hex.EncodeToString: the token of the 64 characters.
EncodeToString(v) == [hd |-> FirstByte(v), tl |-> v]

NL == [hd |-> 0 - 1, tl |-> [alg |-> "nl", pre |-> <<>>]]

\* strings.Join(list, "\n")
RECURSIVE Join(_)
Join(list) ==
  IF list = <<>> THEN <<>>
  ELSE IF Len(list) = 1 THEN list[1]
  ELSE list[1] \o <<NL>> \o Join(Tail(list))

\* strings.Split(s, "\n"): always at least one element, "" for the empty s.
RECURSIVE SplitFrom(_, _)
SplitFrom(s, cur) ==
  IF s = <<>> THEN <<cur>>
  ELSE IF Head(s) = NL THEN <<cur>> \o SplitFrom(Tail(s), <<>>)
  ELSE SplitFrom(Tail(s), Append(cur, Head(s)))

Split(s) == SplitFrom(s, <<>>)

\* path.Base of a name given as its components
Base(name) == name[Len(name)]

\* path.Dir of a path below the root
Dir(path) == SubSeq(path, 1, Len(path) - 1)

(***************************************************************************)
(* The filesystem below the store's root: a function from the paths that   *)
(* exist to their nodes.  The root itself always exists.  Now is the       *)
(* clock's reading when a file is created or written.                      *)
(***************************************************************************)
Now == 0
Root == <<>>
\* The name of the root directory ("data") and the path "." above it, as
\* the values that stand for them in a hex token.
RootName == [alg |-> "root", pre |-> <<>>]
Dot == 0 - 2

\* fds: the processes holding an open descriptor of the file
DirNode == [kind |-> "dir", data |-> <<>>, mtime |-> Now, fds |-> {}]
FileNode(data, t) == [kind |-> "file", data |-> data, mtime |-> t, fds |-> {}]

Exists(f, path) == path = Root \/ path \in DOMAIN f
IsDir(f, path) == path = Root \/ (path \in DOMAIN f /\ f[path].kind = "dir")
IsFile(f, path) == path \in DOMAIN f /\ f[path].kind = "file"

Put(f, path, node) ==
  [q \in DOMAIN f \cup {path} |-> IF q = path THEN node ELSE f[q]]

Drop(f, path) == [q \in DOMAIN f \ {path} |-> f[q]]

\* a directory listing that never shows an entry
ReaddirnamesNone(f, dir) == {}

Readdirnames(f, dir) ==
  {q \in DOMAIN f : Len(q) = Len(dir) + 1 /\ Dir(q) = dir}

\* os.Stat: err == nil
StatOk(f, path) == Exists(f, path) /\ IsDir(f, Dir(path))

\* os.MkdirAll: creates the missing directories of path, fails on a file
RECURSIVE MkdirAll(_, _)
MkdirAll(f, path) ==
  IF path = Root THEN [ok |-> TRUE, fs |-> f]
  ELSE LET up == MkdirAll(f, Dir(path))
       IN IF ~up.ok THEN up
          ELSE IF IsDir(up.fs, path) THEN up
          ELSE IF Exists(up.fs, path) THEN [ok |-> FALSE, fs |-> f]
          ELSE [ok |-> TRUE, fs |-> Put(up.fs, path, DirNode)]

\* open(O_WRONLY|O_CREATE|O_TRUNC) succeeds
CanCreate(f, path) == IsDir(f, Dir(path)) /\ ~IsDir(f, path)

\* os.Remove succeeds: a file, or a directory without entries
CanRemove(f, path) ==
  /\ path \in DOMAIN f
  /\ f[path].kind = "dir" => Readdirnames(f, path) = {}

\* ioutil.ReadFile succeeds
CanRead(f, path) == IsFile(f, path)

(***************************************************************************)
(* doRoll: the chunker goroutine.                                          *)
(***************************************************************************)
chunkit(contentBuf) ==
  [hash |-> <<EncodeToString(Sha256(contentBuf))>>, content |-> contentBuf]

NoChunk == [hash |-> <<>>, content |-> <<>>]

\* The goroutine before "go doRoll" and after it returned (done is closed).
Idle == [at |-> "none", chunk |-> NoChunk, last |-> FALSE,
         rs |-> NewRollSum, rest |-> <<>>, fails |-> FALSE]

Closed == [Idle EXCEPT !.at = "closed"]

\* a turn that looks for the split before it rolls the byte
TurnLate(rs, contentBuf, b) ==
  [rs |-> Roll(rs, b), contentBuf |-> Append(contentBuf, b), split |-> OnSplit(rs)]

\* lines 180-182: one turn of the loop of doRoll on the byte b
Turn(rs, contentBuf, b) ==
  LET rolled == Roll(rs, b)
  IN [rs |-> rolled, contentBuf |-> Append(contentBuf, b), split |-> OnSplit(rolled)]

\* a chunker that sends the bytes it has buffered when the read fails, and
\* the error after them
RECURSIVE doRollFlush(_, _, _, _)
doRollFlush(rs, contentBuf, rest, fails) ==
  IF rest = <<>>
  THEN IF fails /\ contentBuf # <<>>
       THEN [at |-> "chunks", chunk |-> chunkit(contentBuf), last |-> FALSE,
             rs |-> rs, rest |-> rest, fails |-> fails]
       ELSE IF fails
       THEN [at |-> "errors", chunk |-> NoChunk, last |-> TRUE,
             rs |-> rs, rest |-> rest, fails |-> fails]
       ELSE [at |-> "chunks", chunk |-> chunkit(contentBuf), last |-> TRUE,
             rs |-> rs, rest |-> rest, fails |-> fails]
  ELSE LET t == Turn(rs, contentBuf, Head(rest))
       IN IF t.split
          THEN [at |-> "chunks", chunk |-> chunkit(t.contentBuf), last |-> FALSE,
                rs |-> t.rs, rest |-> Tail(rest), fails |-> fails]
          ELSE doRollFlush(t.rs, t.contentBuf, Tail(rest), fails)

\* The loop of doRoll from one channel send to the next one: the goroutine
\* blocks on "chunks <-" or on "errors <-".  rest is the unread input and
\* fails tells whether the read after it returns an error instead of EOF.
RECURSIVE doRoll(_, _, _, _)
doRoll(rs, contentBuf, rest, fails) ==
  IF rest = <<>>
  THEN IF fails
       THEN [at |-> "errors", chunk |-> NoChunk, last |-> TRUE,
             rs |-> rs, rest |-> rest, fails |-> fails]
       ELSE [at |-> "chunks", chunk |-> chunkit(contentBuf), last |-> TRUE,
             rs |-> rs, rest |-> rest, fails |-> fails]
  ELSE LET t == Turn(rs, contentBuf, Head(rest))
       IN IF t.split
          THEN [at |-> "chunks", chunk |-> chunkit(t.contentBuf), last |-> FALSE,
                rs |-> t.rs, rest |-> Tail(rest), fails |-> fails]
          ELSE doRoll(t.rs, t.contentBuf, Tail(rest), fails)

\* the goroutine closes done after the first send it got rid of
ResumeClosed(d) == Closed

\* the goroutine neither sends again nor closes done
ResumeStuck(d) == Idle

\* The goroutine after its pending send has been received.
Resume(d) == IF d.last THEN Closed ELSE doRoll(d.rs, <<>>, d.rest, d.fails)

\* All the chunks of an input, in order.
RECURSIVE ChunksFrom(_)
ChunksFrom(d) ==
  IF d.at # "chunks" THEN <<>> ELSE <<d.chunk>> \o ChunksFrom(Resume(d))

ChunksOf(body) == ChunksFrom(doRoll(NewRollSum, <<>>, body, FALSE))

(***************************************************************************)
(* Inputs.                                                                 *)
(***************************************************************************)
\* 25 bytes whose sum is 6207: after them A = 64*31 + 6207 = 8191, a split.
SplitHead == <<87>> \o [i \in 1..24 |-> 255]
Tails == {<<>>, <<8>>}
Bodies == {h \o t : h \in {<<>>, SplitHead}, t \in Tails}
Names == {<<"a", "x">>}
\* names whose last component is not the name of a file
OddNames == {<<"a", "..">>}
ModTimes == {1}
Rands == {0, 1}

\* The lengths a chunk file may be left with when its write fails.
PartialLens(content) == {k \in {0, Len(content) - 1} : k >= 0 /\ k < Len(content)}

(***************************************************************************)
(* State.                                                                  *)
(***************************************************************************)
VARIABLES
  fs,       \* the filesystem below the root
  pc,       \* pc[p]: where the call running in p stands
  dr,       \* dr[p]: the doRoll goroutine of p's Post
  post,     \* post[p]: the locals of p's Post
  del,      \* del[p]: the locals of p's Delete
  rdr,      \* rdr[p]: the chunkedReader p got from Get
  cl,       \* cl[p]: what p's caller saw of its reader
  ret,      \* ret[p]: what p's last call returned
  ops,      \* calls started
  faults,   \* I/O errors injected
  blocked,  \* doRoll goroutines left blocked on a send
  okPosts,  \* history: the PIDs successful Posts returned, not deleted since
  gone,     \* history: the names whose Delete succeeded, not created since
  stored,   \* history: bodies posted successfully, no chunk name deleted since
  lab,      \* the buffer and the RollSums of the run of TestSum
  fst       \* the fsStore, and the handler over it

vars == <<fs, pc, dr, post, del, rdr, cl, ret, ops, faults, blocked,
          okPosts, gone, stored, lab, fst>>

NoPost == [name |-> <<>>, modTime |-> Now, body |-> <<>>, chunkList |-> <<>>,
           chunk |-> NoChunk, filepath |-> <<>>, made |-> FALSE, dup |-> FALSE]
NoDel == [name |-> <<>>, filepath |-> <<>>]
NoReader == [chunks |-> <<>>, chunkOffsets |-> <<>>, off |-> 0]
\* known: the name given to Get was a live PID; want, wantTime: what was
\* posted under it; op, size, n, err: the last call on the reader and its
\* results; got: the bytes the Reads returned since Get or the last Seek;
\* sought: the stream offset the last Seek aimed at, -1 before any Seek
NoClient == [known |-> FALSE, want |-> <<>>, wantTime |-> Now, reads |-> 0,
             op |-> "none", size |-> 0, n |-> 0, err |-> "nil", got |-> <<>>,
             sought |-> 0 - 1]
\* op, name: the call and its name argument; err, newpath, modTime: what it
\* returned.  History of a Post: body, the bytes of its reader, path, the
\* metadata path it drew, made, whether it created a file there, dup,
\* whether its body had been posted before.  History of a Get: live, whether name was a live PID, wasGone,
\* whether name had been deleted.
NoRet == [op |-> "none", name |-> <<>>, err |-> "nil", newpath |-> <<>>,
          modTime |-> Now, body |-> <<>>, path |-> <<>>, made |-> FALSE,
          dup |-> FALSE,
          live |-> FALSE, wasGone |-> FALSE]

\* a chunker at work: its RollSum, its contentBuf, and the chunks it sent,
\* each with the position where it ends
NoChunker == [rs |-> NewRollSum, contentBuf |-> <<>>, sent |-> <<>>]
\* TestSum does not run
NoLab == [buf |-> <<>>, offset |-> 0, len |-> 0]
\* what a call on the fsStore returned
NoFsRet == [op |-> "none", err |-> "nil", newpath |-> <<>>, modTime |-> Now]
\* the *os.File of Get: its path and its offset
NoFile == [open |-> FALSE, path |-> <<>>, pos |-> 0]
\* a header that is not set
NoHeader == <<>>
\* a request and the response to it: method, name, and whether the request
\* passes check; status, the headers, and the bytes of the body
NoResp == [method |-> "none", name |-> <<>>, valid |-> FALSE, stored |-> <<>>,
           err |-> "nil", status |-> 0, location |-> NoHeader, etag |-> NoHeader,
           length |-> NoHeader, body |-> <<>>]
\* no fsStore is run
NoFst == [on |-> FALSE]
\* on: an fsStore is run beside the dedupStore, on the same calls; fs: the
\* filesystem below its root; count, reads: the calls and the Reads it has
\* been given; ret: what its last call returned; f: the file of its last
\* Get; n, err: what the last Read on f returned; got: the bytes the Reads
\* on f returned
Beside == [on |-> TRUE, fs |-> <<>>, count |-> 0, reads |-> 0, ret |-> NoFsRet,
           f |-> NoFile, n |-> 0, err |-> "nil", got |-> <<>>]
\* the fsStore below the handler: fs, the filesystem below its root; reqs,
\* the requests served; resp, the last of them; up, history: the bodies
\* uploaded, by the PID of the Location of the response
Served == [on |-> FALSE, fs |-> <<>>, reqs |-> 0, resp |-> NoResp, up |-> <<>>]

Init ==
  /\ lab = NoLab
  /\ fst = NoFst
  /\ fs = <<>>
  /\ pc = [p \in Procs |-> "idle"]
  /\ dr = [p \in Procs |-> Idle]
  /\ post = [p \in Procs |-> NoPost]
  /\ del = [p \in Procs |-> NoDel]
  /\ rdr = [p \in Procs |-> NoReader]
  /\ cl = [p \in Procs |-> NoClient]
  /\ ret = [p \in Procs |-> NoRet]
  /\ ops = 0
  /\ faults = 0
  /\ blocked = 0
  /\ okPosts = <<>>
  /\ gone = {}
  /\ stored = {}

(***************************************************************************)
(* Scheduling.  A call starts on the first process that runs none.  With   *)
(* par = FALSE calls run one at a time, a reader being closed before the   *)
(* next call starts; with par = TRUE the calls of the processes            *)
(* interleave.  ops counts the calls started: Post, Get and Delete.        *)
(***************************************************************************)
Quiet(p) == \A q \in Procs \ {p} : pc[q] = "idle"

\* the fsStore run beside the dedupStore has been given every call and
\* every Read so far
Synced ==
  fst.on => /\ fst.count = ops
            /\ \A p \in Procs : pc[p] = "open" => fst.reads = cl[p].reads

CanStart(p, par) ==
  /\ pc[p] = "idle"
  /\ Synced
  /\ \A q \in Procs : q < p => pc[q] # "idle"
  /\ par \/ Quiet(p)
  /\ ops < (IF par THEN MaxParOps ELSE MaxOps)

(***************************************************************************)
(* dedupStore.Post                                                         *)
(***************************************************************************)
\* path.Join(ds.root, hash[:2], hash[2:])
HexPath(hash) == <<hash[1].hd, hash[1].tl>>

\* path.Join(dir, filename), cleaned: the filename ".." stands for the
\* parent of dir.  No component of dir is "." or "..": they are hex digits.
JoinClean(dir, filename) ==
  IF filename = ".." THEN Dir(dir) ELSE Append(dir, filename)

\* randomPath, n being what rand.Read draws
randomPath(name, n) ==
  LET randomString == <<EncodeToString(RandomBytes(n))>>
  IN JoinClean(HexPath(randomString), Base(name))

\* path.Base of filepath after k path.Dir: below the root a component of
\* filepath, then the name of the root, then "."
Ancestor(filepath, k) ==
  IF Len(filepath) > k THEN filepath[Len(filepath) - k]
  ELSE IF Len(filepath) = k THEN RootName
  ELSE Dot

\* newpath: path.Join(random2+randomrest, filename)
NewPath(filepath) ==
  LET filename == Ancestor(filepath, 0)
      randomrest == Ancestor(filepath, 1)
      random2 == Ancestor(filepath, 2)
  IN <<[hd |-> random2, tl |-> randomrest], filename>>

\* Post returns (newpath, err).
PostReturn(p, newpath, err, f) ==
  /\ pc' = [pc EXCEPT ![p] = "idle"]
  /\ ret' = [ret EXCEPT ![p] =
       [NoRet EXCEPT !.op = "Post", !.name = post[p].name, !.err = err,
                     !.newpath = newpath, !.modTime = post[p].modTime,
                     !.body = post[p].body, !.path = post[p].filepath,
                     !.made = post[p].made, !.dup = post[p].dup]]
  /\ post' = [post EXCEPT ![p] = NoPost]
  /\ blocked' = IF dr[p].at \in {"chunks", "errors"} THEN blocked + 1 ELSE blocked
  /\ dr' = [dr EXCEPT ![p] = Idle]
  /\ IF err = "nil"
     THEN /\ okPosts' = Put(okPosts, newpath,
                 [body |-> post[p].body, mtime |-> post[p].modTime,
                  n |-> IF newpath \in DOMAIN okPosts
                        THEN okPosts[newpath].n + 1 ELSE 1])
          /\ gone' = gone \ {newpath}
          /\ stored' = stored \cup {post[p].body}
     ELSE UNCHANGED <<okPosts, gone, stored>>
  /\ fs' = f

\* lines 58-62
PostBegin(p, name, body, fails, modTime, par) ==
  /\ CanStart(p, par)
  /\ fails => faults < MaxFaults
  /\ ops' = ops + 1
  /\ faults' = IF fails THEN faults + 1 ELSE faults
  /\ pc' = [pc EXCEPT ![p] = "select"]
  /\ dr' = [dr EXCEPT ![p] = doRoll(NewRollSum, <<>>, body, fails)]
  /\ post' = [post EXCEPT ![p] =
       [NoPost EXCEPT !.name = name, !.modTime = modTime, !.body = body,
                      !.dup = body \in stored]]
  /\ ret' = [ret EXCEPT ![p] = NoRet]
  /\ UNCHANGED <<fs, del, rdr, cl, blocked, okPosts, gone, stored>>
  /\ UNCHANGED <<lab, fst>>

\* line 74: the chunk is taken to be stored already
ChunkStoredNever(f, chunkpath) == FALSE

ChunkStored(f, chunkpath) == StatOk(f, chunkpath)

\* lines 71-77: receive a chunk, stat its path
PostChunk(p) ==
  /\ pc[p] = "select"
  /\ dr[p].at = "chunks"
  /\ LET chunk == dr[p].chunk
         chunkpath == HexPath(chunk.hash)
     IN /\ post' = [post EXCEPT ![p].chunkList = Append(@, chunk.hash),
                                ![p].chunk = chunk]
        /\ pc' = [pc EXCEPT ![p] =
             IF ChunkStored(fs, chunkpath) THEN "select" ELSE "mkdir"]
  /\ dr' = [dr EXCEPT ![p] = Resume(dr[p])]
  /\ UNCHANGED <<fs, del, rdr, cl, ret, ops, faults, blocked, okPosts, gone, stored>>
  /\ UNCHANGED <<lab, fst>>

\* lines 78-80
PostMkdirAll(p) ==
  /\ pc[p] = "mkdir"
  /\ LET r == MkdirAll(fs, Dir(HexPath(post[p].chunk.hash)))
     IN \/ /\ r.ok
           /\ fs' = r.fs
           /\ pc' = [pc EXCEPT ![p] = "write"]
           /\ UNCHANGED <<dr, post, ret, faults, blocked, okPosts, gone, stored>>
        \/ /\ ~r.ok
           /\ PostReturn(p, <<>>, "ENOTDIR", fs)
           /\ UNCHANGED faults
        \/ /\ faults < MaxFaults
           /\ faults' = faults + 1
           /\ PostReturn(p, <<>>, "EIO", fs)
  /\ UNCHANGED <<del, rdr, cl, ops>>
  /\ UNCHANGED <<lab, fst>>

\* The node os.Create leaves: a new empty file, or the existing file
\* truncated; p holds a descriptor of it.
Created(f, path, p) ==
  [kind |-> "file", data |-> <<>>, mtime |-> Now,
   fds |-> IF IsFile(f, path) THEN f[path].fds \cup {p} ELSE {p}]

\* A write of content at offset 0 of a file holding old.
Overlay(content, old) == content \o SubSeq(old, Len(content) + 1, Len(old))

\* p's descriptor of the file at path is closed or forgotten.
DropFd(f, path, p) ==
  IF IsFile(f, path) THEN [f EXCEPT ![path].fds = @ \ {p}] ELSE f

\* lines 81-83, ioutil.WriteFile: the file is opened with O_CREATE and
\* O_TRUNC
PostWriteFile(p) ==
  /\ pc[p] = "write"
  /\ LET chunkpath == HexPath(post[p].chunk.hash)
     IN \/ /\ CanCreate(fs, chunkpath)
           /\ fs' = Put(fs, chunkpath, Created(fs, chunkpath, p))
           /\ pc' = [pc EXCEPT ![p] = "writing"]
           /\ UNCHANGED <<dr, post, ret, faults, blocked, okPosts, gone, stored>>
        \/ /\ ~CanCreate(fs, chunkpath)
           /\ PostReturn(p, <<>>, "ENOENT", fs)
           /\ UNCHANGED faults
  /\ UNCHANGED <<del, rdr, cl, ops>>
  /\ UNCHANGED <<lab, fst>>

\* lines 81-83, ioutil.WriteFile: the content is written to the file p
\* opened, if it is still there, and the file is closed
PostWrite(p) ==
  /\ pc[p] = "writing"
  /\ LET chunkpath == HexPath(post[p].chunk.hash)
         content == post[p].chunk.content
         mine == IsFile(fs, chunkpath) /\ p \in fs[chunkpath].fds
         Written(data) ==
           IF mine
           THEN [fs EXCEPT ![chunkpath].data = Overlay(data, @),
                           ![chunkpath].fds = @ \ {p}]
           ELSE fs
     IN \/ /\ fs' = Written(content)
           /\ pc' = [pc EXCEPT ![p] = "select"]
           /\ UNCHANGED <<dr, post, ret, faults, blocked, okPosts, gone, stored>>
        \/ /\ faults < MaxFaults
           /\ faults' = faults + 1
           /\ \E k \in PartialLens(content) :
                PostReturn(p, <<>>, "EIO", Written(SubSeq(content, 1, k)))
  /\ UNCHANGED <<del, rdr, cl, ops>>
  /\ UNCHANGED <<lab, fst>>

\* lines 84-85
PostErr(p) ==
  /\ pc[p] = "select"
  /\ dr[p].at = "errors"
  /\ pc' = [pc EXCEPT ![p] = "idle"]
  /\ ret' = [ret EXCEPT ![p] =
       [NoRet EXCEPT !.op = "Post", !.name = post[p].name, !.err = "read",
                     !.modTime = post[p].modTime, !.body = post[p].body]]
  /\ post' = [post EXCEPT ![p] = NoPost]
  /\ dr' = [dr EXCEPT ![p] = Idle]
  /\ UNCHANGED <<fs, del, rdr, cl, ops, faults, blocked, okPosts, gone, stored>>
  /\ UNCHANGED <<lab, fst>>

\* lines 86-101: done is closed; draw the path, stat it
PostDone(p, n) ==
  /\ pc[p] = "select"
  /\ dr[p].at = "closed"
  /\ LET filepath == randomPath(post[p].name, n)
     IN IF StatOk(fs, filepath)
        THEN /\ PostReturn(p, <<>>, "File already exists", fs)
        ELSE /\ pc' = [pc EXCEPT ![p] = "mdmkdir"]
             /\ post' = [post EXCEPT ![p].filepath = filepath]
             /\ UNCHANGED <<fs, dr, ret, blocked, okPosts, gone, stored>>
  /\ UNCHANGED <<del, rdr, cl, ops, faults>>
  /\ UNCHANGED <<lab, fst>>

\* line 102: the error of MkdirAll is dropped
PostMetaMkdirAll(p) ==
  /\ pc[p] = "mdmkdir"
  /\ LET r == MkdirAll(fs, Dir(post[p].filepath))
     IN \/ /\ fs' = IF r.ok THEN r.fs ELSE fs
           /\ UNCHANGED faults
        \/ /\ faults < MaxFaults
           /\ faults' = faults + 1
           /\ fs' = fs
  /\ pc' = [pc EXCEPT ![p] = "create"]
  /\ UNCHANGED <<dr, post, del, rdr, cl, ret, ops, blocked, okPosts, gone, stored>>
  /\ UNCHANGED <<lab, fst>>

\* lines 103-106
PostCreate(p) ==
  /\ pc[p] = "create"
  /\ LET filepath == post[p].filepath
     IN \/ /\ CanCreate(fs, filepath)
           /\ fs' = Put(fs, filepath, Created(fs, filepath, p))
           /\ pc' = [pc EXCEPT ![p] = "wstr"]
           /\ post' = [post EXCEPT ![p].made = TRUE]
           /\ gone' = gone \ {NewPath(filepath)}
           /\ UNCHANGED <<dr, ret, faults, blocked, okPosts, stored>>
        \/ /\ ~CanCreate(fs, filepath)
           /\ PostReturn(p, <<>>, "ENOENT", fs)
           /\ UNCHANGED faults
        \/ /\ CanCreate(fs, filepath)
           /\ faults < MaxFaults
           /\ faults' = faults + 1
           /\ PostReturn(p, <<>>, "EIO", fs)
  /\ UNCHANGED <<del, rdr, cl, ops>>
  /\ UNCHANGED <<lab, fst>>

\* lines 107-111: the write goes to the file p created, if it is still there
PostWriteString(p) ==
  /\ pc[p] = "wstr"
  /\ LET filepath == post[p].filepath
         content == Join(post[p].chunkList)
     IN \/ /\ fs' = IF IsFile(fs, filepath) /\ p \in fs[filepath].fds
                    THEN [fs EXCEPT ![filepath].data = Overlay(content, @)]
                    ELSE fs
           /\ pc' = [pc EXCEPT ![p] = "finish"]
           /\ UNCHANGED <<dr, post, ret, faults, blocked, okPosts, gone, stored>>
        \/ /\ faults < MaxFaults
           /\ faults' = faults + 1
           /\ PostReturn(p, <<>>, "EIO", DropFd(fs, filepath, p))
  /\ UNCHANGED <<del, rdr, cl, ops>>
  /\ UNCHANGED <<lab, fst>>

\* lines 112-137: Sync, Close, then newpath and Chtimes
PostFinish(p) ==
  /\ pc[p] = "finish"
  /\ LET filepath == post[p].filepath
         closed == DropFd(fs, filepath, p)
     IN \/ /\ faults < MaxFaults
           /\ faults' = faults + 1
           /\ \/ PostReturn(p, <<>>, "EIO", closed)
              \/ PostReturn(p, NewPath(filepath), "EIO", closed)
        \/ /\ UNCHANGED faults
           /\ IF StatOk(closed, filepath)
              THEN PostReturn(p, NewPath(filepath), "nil",
                     [closed EXCEPT ![filepath].mtime = post[p].modTime])
              ELSE PostReturn(p, NewPath(filepath), "ENOENT", closed)
  /\ UNCHANGED <<del, rdr, cl, ops>>
  /\ UNCHANGED <<lab, fst>>

(***************************************************************************)
(* dedupStore.Delete                                                       *)
(***************************************************************************)
\* A name of fewer than two characters (k of them) has no name[:2]: its
\* token has no first byte.
NoChars == 0 - 3
ShortName(k) == <<[hd |-> NoChars, tl |-> [alg |-> "short", pre |-> <<k>>]]>>
ShortNames == {ShortName(k) : k \in {0, 1}}

\* len(name) < 2
TooShort(name) == name[1].tl.alg = "short"

\* path.Join(ds.root, name[:2], name[2:])
NamePath(name) == <<name[1].hd, name[1].tl>> \o Tail(name)

DeleteReturn(p, err) ==
  /\ pc' = [pc EXCEPT ![p] = "idle"]
  /\ ret' = [ret EXCEPT ![p] =
       [NoRet EXCEPT !.op = "Delete", !.name = del[p].name, !.err = err]]
  /\ gone' = IF err = "nil" THEN gone \cup {del[p].name} ELSE gone
  /\ del' = [del EXCEPT ![p] = NoDel]

\* lines 294-299: name[:2] is taken without a test of len(name), a slice
\* out of range panics
DeleteFile(p, name, par) ==
  /\ CanStart(p, par)
  /\ ops' = ops + 1
  /\ stored' = IF Len(name) = 2 \/ TooShort(name) THEN stored ELSE {}
  /\ LET filepath == NamePath(name)
     IN IF TooShort(name)
        THEN /\ pc' = [pc EXCEPT ![p] = "idle"]
             /\ ret' = [ret EXCEPT ![p] =
                  [NoRet EXCEPT !.op = "Delete", !.name = name, !.err = "panic"]]
             /\ UNCHANGED <<fs, del, okPosts, gone>>
        ELSE IF CanRemove(fs, filepath)
        THEN /\ fs' = Drop(fs, filepath)
             /\ okPosts' = IF name \in DOMAIN okPosts THEN Drop(okPosts, name)
                           ELSE okPosts
             /\ pc' = [pc EXCEPT ![p] = "rmdir"]
             /\ del' = [del EXCEPT ![p] = [name |-> name, filepath |-> filepath]]
             /\ ret' = [ret EXCEPT ![p] = NoRet]
             /\ UNCHANGED gone
        ELSE /\ pc' = [pc EXCEPT ![p] = "idle"]
             /\ ret' = [ret EXCEPT ![p] =
                  [NoRet EXCEPT !.op = "Delete", !.name = name,
                     !.err = IF filepath \in DOMAIN fs THEN "ENOTEMPTY" ELSE "ENOENT"]]
             /\ UNCHANGED <<fs, del, okPosts, gone>>
  /\ UNCHANGED <<dr, post, rdr, cl, faults, blocked>>
  /\ UNCHANGED <<lab, fst>>

\* lines 301-305
DeleteDir(p) ==
  /\ pc[p] = "rmdir"
  /\ LET untilRandomRest == Dir(del[p].filepath)
     IN IF CanRemove(fs, untilRandomRest)
        THEN /\ fs' = Drop(fs, untilRandomRest)
             /\ pc' = [pc EXCEPT ![p] = "prune"]
             /\ UNCHANGED <<del, ret, gone>>
        ELSE /\ fs' = fs
             /\ DeleteReturn(p, IF untilRandomRest \in DOMAIN fs
                                THEN "ENOTEMPTY" ELSE "ENOENT")
  /\ UNCHANGED <<dr, post, rdr, cl, ops, faults, blocked, okPosts, stored>>
  /\ UNCHANGED <<lab, fst>>

\* lines 307-319: the root directory is never removed in the model, an
\* empty root and a missing one behave alike
DeletePrune(p) ==
  /\ pc[p] = "prune"
  /\ LET untilRandom2 == Dir(Dir(del[p].filepath))
     IN IF ~IsDir(fs, untilRandom2)
        THEN /\ fs' = fs
             /\ DeleteReturn(p, "ENOENT")
        ELSE /\ fs' = IF Readdirnames(fs, untilRandom2) = {} /\ untilRandom2 # Root
                      THEN Drop(fs, untilRandom2) ELSE fs
             /\ DeleteReturn(p, "nil")
  /\ UNCHANGED <<dr, post, rdr, cl, ops, faults, blocked, okPosts, stored>>
  /\ UNCHANGED <<lab, fst>>

(***************************************************************************)
(* dedupStore.Get, newChunkedReader                                        *)
(***************************************************************************)
\* string(chunkList) split at "\n".  A file directly below a fan-out
\* directory is a chunk: its bytes hold no "\n" and are one string that is
\* not a hex string.
Lines(f, filepath) ==
  IF Len(filepath) = 2 THEN <<>> ELSE Split(f[filepath].data)

\* hash[:2] panics on a string shorter than two characters
Sliceable(f, filepath) ==
  IF Len(filepath) = 2 THEN Len(f[filepath].data) >= 2
  ELSE \A i \in 1..Len(Lines(f, filepath)) : Lines(f, filepath)[i] # <<>>

\* the offsets newChunkedReader computes from the sizes of the chunk files
RECURSIVE Offsets(_, _, _)
Offsets(f, chunks, totalOffset) ==
  IF chunks = <<>> THEN <<totalOffset>>
  ELSE <<totalOffset>>
       \o Offsets(f, Tail(chunks), totalOffset + Len(f[HexPath(Head(chunks))].data))

\* lines 223-239; err is "nil", the error of os.Stat, or "panic"
newChunkedReader(f, filepath) ==
  LET chunks == Lines(f, filepath)
  IN IF ~Sliceable(f, filepath)
     THEN [err |-> "panic", cr |-> NoReader]
     ELSE IF Len(filepath) = 2
     THEN [err |-> "ENOENT", cr |-> NoReader]
     ELSE IF \E i \in 1..Len(chunks) : ~StatOk(f, HexPath(chunks[i]))
     THEN [err |-> "ENOENT", cr |-> NoReader]
     ELSE [err |-> "nil",
           cr |-> [chunks |-> chunks, chunkOffsets |-> Offsets(f, chunks, 0),
                   off |-> 0]]

\* lines 189-206
Get(p, name, par) ==
  /\ CanStart(p, par)
  /\ ops' = ops + 1
  /\ LET filepath == NamePath(name)
         r == newChunkedReader(fs, filepath)
         live == name \in DOMAIN okPosts
         err == IF TooShort(name) THEN "Invalid name"
                ELSE IF ~CanRead(fs, filepath)
                THEN (IF filepath \in DOMAIN fs THEN "EISDIR" ELSE "ENOENT")
                ELSE r.err
     IN /\ ret' = [ret EXCEPT ![p] =
             [NoRet EXCEPT !.op = "Get", !.name = name, !.err = err,
                !.modTime = IF CanRead(fs, filepath) THEN fs[filepath].mtime ELSE Now,
                !.live = live, !.wasGone = name \in gone]]
        /\ IF err = "nil"
           THEN /\ pc' = [pc EXCEPT ![p] = "open"]
                /\ rdr' = [rdr EXCEPT ![p] = r.cr]
                /\ cl' = [cl EXCEPT ![p] =
                     [NoClient EXCEPT !.known = live,
                        !.want = IF live THEN okPosts[name].body ELSE <<>>,
                        !.wantTime = IF live THEN okPosts[name].mtime ELSE Now]]
           ELSE UNCHANGED <<pc, rdr, cl>>
  /\ UNCHANGED <<fs, dr, post, del, faults, blocked, okPosts, gone, stored>>
  /\ UNCHANGED <<lab, fst>>

(***************************************************************************)
(* chunkedReader                                                           *)
(***************************************************************************)
Min(a, b) == IF a < b THEN a ELSE b

\* sort.Search(len(chunkOffsets), chunkOffsets[i] > off), counting from 0
Search(chunkOffsets, off) ==
  LET hits == {i \in 0..(Len(chunkOffsets) - 1) : chunkOffsets[i + 1] > off}
  IN IF hits = {} THEN Len(chunkOffsets)
     ELSE CHOOSE i \in hits : \A j \in hits : i <= j

\* lines 241-267: the loop of Read over a buffer with want bytes left; off
\* is the offset of the receiver's copy, out the bytes copied into p so far.
\* err is "nil", an error, "panic" (an index or a slice out of range) or
\* "hang" (the loop copies nothing and goes on for ever).
RECURSIVE ReadLoop(_, _, _, _, _, _)
ReadLoop(f, cr, off, want, n, out) ==
  IF want = 0 THEN [n |-> n, err |-> "nil", data |-> out, off |-> off]
  ELSE
    LET chunkIndex == Search(cr.chunkOffsets, off) - 1
    IN IF chunkIndex = Len(cr.chunkOffsets) - 1
       THEN [n |-> 0, err |-> "Invalid offset", data |-> out, off |-> off]
       ELSE IF chunkIndex < 0
       THEN [n |-> 0, err |-> "panic", data |-> out, off |-> off]
       ELSE
         LET chunkpath == HexPath(cr.chunks[chunkIndex + 1])
         IN IF ~CanRead(f, chunkpath)
            THEN [n |-> n, err |-> "ENOENT", data |-> out, off |-> off]
            ELSE
              LET chunk == f[chunkpath].data
                  offsetInChunk == off - cr.chunkOffsets[chunkIndex + 1]
                  nn == Min(want, Len(chunk) - offsetInChunk)
              IN IF offsetInChunk > Len(chunk)
                 THEN [n |-> 0, err |-> "panic", data |-> out, off |-> off]
                 ELSE IF nn = 0
                 THEN [n |-> 0, err |-> "hang", data |-> out, off |-> off]
                 ELSE ReadLoop(f, cr, off + nn, want - nn, n + nn,
                        out \o SubSeq(chunk, offsetInChunk + 1, offsetInChunk + nn))

\* Read(p) with len(p) = size, on a copy of the receiver
Read(f, cr, size) == ReadLoop(f, cr, cr.off, size, 0, <<>>)

\* lines 269-280, on a copy of the receiver: the new offset
Seek(cr, offset, whence) ==
  IF whence = "start" THEN offset
  ELSE IF whence = "current" THEN cr.off + offset
  ELSE cr.chunkOffsets[Len(cr.chunkOffsets)] - offset

\* What the receiver's off is after a method changed the off of its copy:
\* Read and Seek have value receivers.
AfterCall(cr, off) == cr

BufSizes == {1, 32}
SeekOffsets == {1, 26}
Whences == {"start", "current", "end"}

\* Where the caller takes the reader to stand: at the target of its last
\* Seek, or at 0, plus the bytes its Reads returned since.
Position(c) == (IF c.sought < 0 THEN 0 ELSE c.sought) + Len(c.got)

\* the caller reads into a buffer of size bytes and keeps p[:n]
ReadCall(p, size, par) ==
  /\ pc[p] = "open"
  /\ Synced
  /\ par \/ Quiet(p)
  /\ cl[p].reads < MaxReads
  /\ LET r == Read(fs, rdr[p], size)
     IN /\ rdr' = [rdr EXCEPT ![p] = AfterCall(@, r.off)]
        /\ cl' = [cl EXCEPT ![p].reads = @ + 1, ![p].op = "Read",
                            ![p].size = size, ![p].n = r.n, ![p].err = r.err,
                            ![p].got = @ \o SubSeq(r.data, 1, r.n)]
  /\ UNCHANGED <<fs, pc, dr, post, del, ret, ops, faults, blocked,
                 okPosts, gone, stored>>
  /\ UNCHANGED <<lab, fst>>

\* the caller seeks to the offset target of the stream, with the argument
\* that whence needs for it
SeekCall(p, target, whence, par) ==
  /\ pc[p] = "open"
  /\ par \/ Quiet(p)
  /\ cl[p].reads < MaxReads
  /\ cl[p].known
  /\ target <= Len(cl[p].want)
  /\ LET size == Len(cl[p].want)
         offset == IF whence = "start" THEN target
                   ELSE IF whence = "current" THEN target - Position(cl[p])
                   ELSE size - target
         new == Seek(rdr[p], offset, whence)
     IN /\ rdr' = [rdr EXCEPT ![p] = AfterCall(@, new)]
        /\ cl' = [cl EXCEPT ![p].reads = @ + 1, ![p].op = "Seek",
                            ![p].size = 0, ![p].n = new, ![p].err = "nil",
                            ![p].got = <<>>, ![p].sought = target]
  /\ UNCHANGED <<fs, pc, dr, post, del, ret, ops, faults, blocked,
                 okPosts, gone, stored>>
  /\ UNCHANGED <<lab, fst>>

\* lines 282-284
Close(p, par) ==
  /\ pc[p] = "open"
  /\ Synced
  /\ par \/ Quiet(p)
  /\ pc' = [pc EXCEPT ![p] = "idle"]
  /\ rdr' = [rdr EXCEPT ![p] = NoReader]
  /\ cl' = [cl EXCEPT ![p] = NoClient]
  /\ ret' = [ret EXCEPT ![p] = NoRet]
  /\ UNCHANGED <<fs, dr, post, del, ops, faults, blocked,
                 okPosts, gone, stored>>
  /\ UNCHANGED <<lab, fst>>

(***************************************************************************)
(* The names callers pass to Get and Delete: the PIDs a Post can return    *)
(* and the 64 hex characters of the chunks in the store.                   *)
(***************************************************************************)
PIDs == {NewPath(randomPath(name, n)) : name \in Names, n \in Rands}
ChunkNames == {<<[hd |-> q[1], tl |-> q[2]]>> :
                 q \in {q \in DOMAIN fs : Len(q) = 2 /\ fs[q].kind = "file"}}
CallNames == PIDs \cup ChunkNames

PostSteps ==
  \/ \E p \in Procs : PostChunk(p)
  \/ \E p \in Procs : PostMkdirAll(p)
  \/ \E p \in Procs : PostWriteFile(p)
  \/ \E p \in Procs : PostWrite(p)
  \/ \E p \in Procs : PostErr(p)
  \/ \E p \in Procs, n \in Rands : PostDone(p, n)
  \/ \E p \in Procs : PostMetaMkdirAll(p)
  \/ \E p \in Procs : PostCreate(p)
  \/ \E p \in Procs : PostWriteString(p)
  \/ \E p \in Procs : PostFinish(p)

Steps ==
  \/ PostSteps
  \/ \E p \in Procs : DeleteDir(p)
  \/ \E p \in Procs : DeletePrune(p)

\* the calls run one at a time
Next ==
  \/ Steps
  \/ \E p \in Procs, name \in Names, body \in Bodies, fails \in BOOLEAN,
        modTime \in ModTimes : PostBegin(p, name, body, fails, modTime, FALSE)
  \/ \E p \in Procs, name \in CallNames : DeleteFile(p, name, FALSE)
  \/ \E p \in Procs, name \in CallNames : Get(p, name, FALSE)
  \/ \E p \in Procs, size \in BufSizes : ReadCall(p, size, FALSE)
  \/ \E p \in Procs, target \in SeekOffsets, whence \in Whences :
        SeekCall(p, target, whence, FALSE)
  \/ \E p \in Procs : Close(p, FALSE)

\* the calls of the processes interleave
NextPar ==
  \/ Steps
  \/ \E p \in Procs, name \in Names, body \in Bodies, fails \in BOOLEAN,
        modTime \in ModTimes : PostBegin(p, name, body, fails, modTime, TRUE)
  \/ \E p \in Procs, name \in CallNames : DeleteFile(p, name, TRUE)
  \/ \E p \in Procs, name \in CallNames : Get(p, name, TRUE)
  \/ \E p \in Procs, size \in BufSizes : ReadCall(p, size, TRUE)
  \/ \E p \in Procs, target \in SeekOffsets, whence \in Whences :
        SeekCall(p, target, whence, TRUE)
  \/ \E p \in Procs : Close(p, TRUE)

(***************************************************************************)
(* TestSum, and the loop of doRoll: the bytes of one buffer are fed, one by *)
(* one, to a RollSum and chunker that start at 0 and to a second pair that *)
(* starts at offset.                                                       *)
(***************************************************************************)
Zeros(n) == [i \in 1..n |-> 0]

\* a split at 25; then a window of zeros and a split at 115
TwoSplits == SplitHead \o <<8>> \o Zeros(windowSize) \o SplitHead \o <<8, 8>>
\* a split at every byte from 70 on: each full window holds the one 96
ManySplits == [i \in 1..90 |-> IF i = 70 THEN 96 ELSE 97]
\* no split
NoSplit == [i \in 1..90 |-> (i * i * 7 + 11 * i + 3) % 256]

LabBufs == {TwoSplits, ManySplits, NoSplit}
LabOffsets == {1, 3, 25}

\* buf[0:len] has been fed to the chunker a and buf[offset:len] to b
InitRoll ==
  /\ \E buf \in LabBufs, offset \in LabOffsets :
       lab = [buf |-> buf, offset |-> offset, len |-> 0,
              a |-> NoChunker, b |-> NoChunker]
  /\ fst = NoFst
  /\ fs = <<>>
  /\ pc = [p \in Procs |-> "idle"]
  /\ dr = [p \in Procs |-> Idle]
  /\ post = [p \in Procs |-> NoPost]
  /\ del = [p \in Procs |-> NoDel]
  /\ rdr = [p \in Procs |-> NoReader]
  /\ cl = [p \in Procs |-> NoClient]
  /\ ret = [p \in Procs |-> NoRet]
  /\ ops = 0
  /\ faults = 0
  /\ blocked = 0
  /\ okPosts = <<>>
  /\ gone = {}
  /\ stored = {}

\* lines 180-185: the chunker c takes the byte b, which ends at position at
Feed(c, b, at) ==
  LET t == Turn(c.rs, c.contentBuf, b)
  IN IF t.split
     THEN [rs |-> t.rs, contentBuf |-> <<>>,
           sent |-> Append(c.sent, [hash |-> chunkit(t.contentBuf).hash, end |-> at])]
     ELSE [rs |-> t.rs, contentBuf |-> t.contentBuf, sent |-> c.sent]

\* the next byte of buf goes to a, and to b once offset bytes have passed
LabRoll ==
  /\ lab.len < Len(lab.buf)
  /\ LET b == lab.buf[lab.len + 1]
     IN lab' = [lab EXCEPT !.len = @ + 1,
                           !.a = Feed(@, b, lab.len + 1),
                           !.b = IF lab.len >= lab.offset
                                 THEN Feed(@, b, lab.len + 1 - lab.offset) ELSE @]
  /\ UNCHANGED <<fs, pc, dr, post, del, rdr, cl, ret, ops, faults, blocked,
                 okPosts, gone, stored, fst>>

NextRoll == LabRoll

(***************************************************************************)
(* fsStore: one file for each object.  Its calls run from start to end,    *)
(* one at a time.                                                          *)
(***************************************************************************)
\* fsstore.go lines 34-75; fails: the reader rd returns an error at its
\* end, after io.Copy wrote its bytes
FsPost(f, name, body, fails, modTime, n) ==
  LET filepath == randomPath(name, n)
      up == MkdirAll(f, Dir(filepath))
      made == IF up.ok THEN up.fs ELSE f
  IN IF StatOk(f, filepath)
     THEN [fs |-> f, newpath |-> <<>>, err |-> "File already exists"]
     ELSE IF ~CanCreate(made, filepath)
     THEN [fs |-> made, newpath |-> <<>>, err |-> "ENOENT"]
     ELSE IF fails
     THEN [fs |-> Put(made, filepath, FileNode(body, Now)), newpath |-> <<>>,
           err |-> "read"]
     ELSE [fs |-> Put(made, filepath, FileNode(body, modTime)),
           newpath |-> NewPath(filepath), err |-> "nil"]

\* fsstore.go lines 80-93: os.Open opens a directory as well as a file
FsGet(f, name) ==
  LET path == NamePath(name)
  IN IF path \in DOMAIN f
     THEN [err |-> "nil", modTime |-> f[path].mtime,
           f |-> [open |-> TRUE, path |-> path, pos |-> 0]]
     ELSE [err |-> "ENOENT", modTime |-> Now, f |-> NoFile]

\* (*os.File).Read into a buffer of size bytes
FsRead(f, file, size) ==
  IF ~file.open THEN [n |-> 0, err |-> "closed", data |-> <<>>]
  ELSE IF f[file.path].kind = "dir" THEN [n |-> 0, err |-> "EISDIR", data |-> <<>>]
  ELSE LET data == f[file.path].data
           n == IF file.pos >= Len(data) THEN 0 ELSE Min(size, Len(data) - file.pos)
       IN [n |-> n, err |-> IF n = 0 THEN "EOF" ELSE "nil",
           data |-> SubSeq(data, file.pos + 1, file.pos + n)]

\* fsstore.go lines 95-121
FsDelete(f, name) ==
  LET filepath == NamePath(name)
      untilRandomRest == Dir(filepath)
      untilRandom2 == Dir(untilRandomRest)
      one == Drop(f, filepath)
      two == Drop(one, untilRandomRest)
  IN IF ~CanRemove(f, filepath)
     THEN [fs |-> f, err |-> IF filepath \in DOMAIN f THEN "ENOTEMPTY" ELSE "ENOENT"]
     ELSE IF ~CanRemove(one, untilRandomRest)
     THEN [fs |-> one,
           err |-> IF untilRandomRest \in DOMAIN one THEN "ENOTEMPTY" ELSE "ENOENT"]
     ELSE IF ~IsDir(two, untilRandom2)
     THEN [fs |-> two, err |-> "ENOENT"]
     ELSE [fs |-> IF Readdirnames(two, untilRandom2) = {} /\ untilRandom2 # Root
                  THEN Drop(two, untilRandom2) ELSE two,
           err |-> "nil"]

(***************************************************************************)
(* The fsStore beside the dedupStore: each call the dedupStore returned    *)
(* from is made on the fsStore with the same arguments and the same bytes  *)
(* from rand.Read.                                                         *)
(***************************************************************************)
\* the call of p has returned and the fsStore has not been given it
Behind(p, op) ==
  /\ fst.on
  /\ fst.count < ops
  /\ ret[p].op = op
  /\ pc[p] \in {"idle", "open"}

\* n is what rand.Read gave the Post of p: it made the path Post went on
\* with, or a path Post found taken
SameDraw(p, n) ==
  IF ret[p].path # <<>> THEN randomPath(ret[p].name, n) = ret[p].path
  ELSE StatOk(fs, randomPath(ret[p].name, n))

FsPostCall(p, n) ==
  /\ Behind(p, "Post")
  /\ SameDraw(p, n)
  /\ LET r == FsPost(fst.fs, ret[p].name, ret[p].body, FALSE, ret[p].modTime, n)
     IN fst' = [fst EXCEPT !.fs = r.fs, !.count = ops, !.f = NoFile,
                           !.ret = [op |-> "Post", err |-> r.err,
                                    newpath |-> r.newpath, modTime |-> Now]]
  /\ UNCHANGED <<fs, pc, dr, post, del, rdr, cl, ret, ops, faults, blocked,
                 okPosts, gone, stored, lab>>

FsGetCall(p) ==
  /\ Behind(p, "Get")
  /\ LET r == FsGet(fst.fs, ret[p].name)
     IN fst' = [fst EXCEPT !.count = ops, !.reads = 0, !.f = r.f, !.got = <<>>,
                           !.n = 0, !.err = "nil",
                           !.ret = [op |-> "Get", err |-> r.err,
                                    newpath |-> <<>>, modTime |-> r.modTime]]
  /\ UNCHANGED <<fs, pc, dr, post, del, rdr, cl, ret, ops, faults, blocked,
                 okPosts, gone, stored, lab>>

FsReadCall(p) ==
  /\ fst.on
  /\ fst.count = ops
  /\ pc[p] = "open"
  /\ cl[p].op = "Read"
  /\ fst.reads < cl[p].reads
  /\ LET r == FsRead(fst.fs, fst.f, cl[p].size)
     IN fst' = [fst EXCEPT !.reads = cl[p].reads, !.n = r.n, !.err = r.err,
                           !.got = @ \o r.data, !.f.pos = @ + r.n]
  /\ UNCHANGED <<fs, pc, dr, post, del, rdr, cl, ret, ops, faults, blocked,
                 okPosts, gone, stored, lab>>

FsDeleteCall(p) ==
  /\ Behind(p, "Delete")
  /\ LET r == FsDelete(fst.fs, ret[p].name)
     IN fst' = [fst EXCEPT !.fs = r.fs, !.count = ops, !.f = NoFile,
                           !.ret = [op |-> "Delete", err |-> r.err,
                                    newpath |-> <<>>, modTime |-> Now]]
  /\ UNCHANGED <<fs, pc, dr, post, del, rdr, cl, ret, ops, faults, blocked,
                 okPosts, gone, stored, lab>>

\* no I/O error, no failing body: the two stores are given calls that
\* differ in nothing
InitEq ==
  /\ lab = NoLab
  /\ fst = Beside
  /\ fs = <<>>
  /\ pc = [p \in Procs |-> "idle"]
  /\ dr = [p \in Procs |-> Idle]
  /\ post = [p \in Procs |-> NoPost]
  /\ del = [p \in Procs |-> NoDel]
  /\ rdr = [p \in Procs |-> NoReader]
  /\ cl = [p \in Procs |-> NoClient]
  /\ ret = [p \in Procs |-> NoRet]
  /\ ops = 0
  /\ faults = MaxFaults
  /\ blocked = 0
  /\ okPosts = <<>>
  /\ gone = {}
  /\ stored = {}

\* the calls run one at a time, on PIDs, on both stores
NextEq ==
  \/ \E p \in Procs : PostChunk(p)
  \/ \E p \in Procs : PostMkdirAll(p)
  \/ \E p \in Procs : PostWriteFile(p)
  \/ \E p \in Procs : PostWrite(p)
  \/ \E p \in Procs, n \in Rands : PostDone(p, n)
  \/ \E p \in Procs : PostMetaMkdirAll(p)
  \/ \E p \in Procs : PostCreate(p)
  \/ \E p \in Procs : PostWriteString(p)
  \/ \E p \in Procs : PostFinish(p)
  \/ \E p \in Procs : DeleteDir(p)
  \/ \E p \in Procs : DeletePrune(p)
  \/ \E p \in Procs, name \in Names, body \in Bodies, modTime \in ModTimes :
        PostBegin(p, name, body, FALSE, modTime, FALSE)
  \/ \E p \in Procs, name \in PIDs : DeleteFile(p, name, FALSE)
  \/ \E p \in Procs, name \in PIDs : Get(p, name, FALSE)
  \/ \E p \in Procs, size \in BufSizes : ReadCall(p, size, FALSE)
  \/ \E p \in Procs : Close(p, FALSE)
  \/ \E p \in Procs, n \in Rands : FsPostCall(p, n)
  \/ \E p \in Procs : FsGetCall(p)
  \/ \E p \in Procs : FsReadCall(p)
  \/ \E p \in Procs : FsDeleteCall(p)

(***************************************************************************)
(* The handler of main.go over st = fsStore{"data"}.  A request is served  *)
(* from start to end.                                                      *)
(***************************************************************************)
\* http.Error(w, ..., code): no header of the handler is set before it
Error(resp, code) == [resp EXCEPT !.status = code]

\* main.go lines 160-170, r being what st.Post returned: the response also
\* carries the Location when Post failed
handlePostAlways(resp, r) ==
  [resp EXCEPT !.status = IF r.err # "nil" THEN 500 ELSE 201,
               !.location = <<"/?name=", r.newpath>>]

\* main.go lines 160-170, r being what st.Post returned
handlePost(resp, r) ==
  IF r.err # "nil" THEN Error(resp, 500)
  ELSE [resp EXCEPT !.status = 201, !.location = <<"/?name=", r.newpath>>]

\* path.Dir(name): the 64 characters before the separator, "." without one
DotName == [hd |-> Dot, tl |-> [alg |-> "dot", pre |-> <<>>]]
NameDir(name) == IF Len(name) = 2 THEN name[1] ELSE DotName

\* what http.ServeContent makes of a handle on a directory: its size is
\* whatever Seek returns and every Read fails
DirStatus == {200, 500}

\* main.go lines 172-187, r being what st.Get returned
handleGet(resp, f, r, status) ==
  IF r.err # "nil" THEN Error(resp, 404)
  ELSE IF f[r.f.path].kind = "dir"
  THEN [resp EXCEPT !.status = status, !.etag = NameDir(resp.name)]
  ELSE [resp EXCEPT !.status = 200, !.etag = NameDir(resp.name),
                    !.length = <<Len(f[r.f.path].data)>>,
                    !.body = IF resp.method = "HEAD" THEN <<>> ELSE f[r.f.path].data]

\* main.go lines 125-128: check(r) fails
HandleBad(method, name) ==
  /\ fst.reqs < MaxReqs
  /\ fst' = [fst EXCEPT !.reqs = @ + 1,
                        !.resp = Error([NoResp EXCEPT !.method = method,
                                                      !.name = name], 400)]
  /\ UNCHANGED <<fs, pc, dr, post, del, rdr, cl, ret, ops, faults, blocked,
                 okPosts, gone, stored, lab>>

\* main.go lines 160-170 on a request that passes check
HandlePost(name, body, fails, n) ==
  /\ fst.reqs < MaxReqs
  /\ LET r == FsPost(fst.fs, name, body, fails, Now, n)
         resp == handlePost([NoResp EXCEPT !.method = "POST", !.name = name,
                                          !.valid = TRUE, !.err = r.err,
                                          !.stored = r.newpath], r)
     IN fst' = [fst EXCEPT !.reqs = @ + 1, !.fs = r.fs, !.resp = resp,
                           !.up = IF r.err = "nil" THEN Put(@, r.newpath, body)
                                  ELSE @]
  /\ UNCHANGED <<fs, pc, dr, post, del, rdr, cl, ret, ops, faults, blocked,
                 okPosts, gone, stored, lab>>

\* main.go lines 172-187 on a request that passes check
HandleGet(method, name, status) ==
  /\ fst.reqs < MaxReqs
  /\ LET r == FsGet(fst.fs, name)
     IN fst' = [fst EXCEPT !.reqs = @ + 1,
                  !.resp = handleGet([NoResp EXCEPT !.method = method,
                                        !.name = name, !.valid = TRUE,
                                        !.err = r.err], fst.fs, r, status)]
  /\ UNCHANGED <<fs, pc, dr, post, del, rdr, cl, ret, ops, faults, blocked,
                 okPosts, gone, stored, lab>>

InitHttp ==
  /\ lab = NoLab
  /\ fst = Served
  /\ fs = <<>>
  /\ pc = [p \in Procs |-> "idle"]
  /\ dr = [p \in Procs |-> Idle]
  /\ post = [p \in Procs |-> NoPost]
  /\ del = [p \in Procs |-> NoDel]
  /\ rdr = [p \in Procs |-> NoReader]
  /\ cl = [p \in Procs |-> NoClient]
  /\ ret = [p \in Procs |-> NoRet]
  /\ ops = 0
  /\ faults = 0
  /\ blocked = 0
  /\ okPosts = <<>>
  /\ gone = {}
  /\ stored = {}

Methods == {"GET", "HEAD"}
\* the names of the requests for download: the PIDs, and the 64 characters
\* of a PID without the separator and the rest
RIDs == {<<pid[1]>> : pid \in PIDs}

NextHttp ==
  \/ \E method \in Methods \cup {"POST", "PUT"}, name \in PIDs : HandleBad(method, name)
  \/ \E name \in Names, body \in Bodies, fails \in BOOLEAN, n \in Rands :
        HandlePost(name, body, fails, n)
  \/ \E method \in Methods, name \in PIDs \cup RIDs, status \in DirStatus :
        HandleGet(method, name, status)

\* no I/O error and no failing body
InitPuts ==
  /\ lab = NoLab
  /\ fst = NoFst
  /\ fs = <<>>
  /\ pc = [p \in Procs |-> "idle"]
  /\ dr = [p \in Procs |-> Idle]
  /\ post = [p \in Procs |-> NoPost]
  /\ del = [p \in Procs |-> NoDel]
  /\ rdr = [p \in Procs |-> NoReader]
  /\ cl = [p \in Procs |-> NoClient]
  /\ ret = [p \in Procs |-> NoRet]
  /\ ops = 0
  /\ faults = MaxFaults
  /\ blocked = 0
  /\ okPosts = <<>>
  /\ gone = {}
  /\ stored = {}

\* Posts only, interleaved
NextPuts ==
  \/ \E p \in Procs : PostChunk(p)
  \/ \E p \in Procs : PostMkdirAll(p)
  \/ \E p \in Procs : PostWriteFile(p)
  \/ \E p \in Procs : PostWrite(p)
  \/ \E p \in Procs, n \in Rands : PostDone(p, n)
  \/ \E p \in Procs : PostMetaMkdirAll(p)
  \/ \E p \in Procs : PostCreate(p)
  \/ \E p \in Procs : PostWriteString(p)
  \/ \E p \in Procs : PostFinish(p)
  \/ \E p \in Procs, name \in Names, body \in Bodies, modTime \in ModTimes :
        PostBegin(p, name, body, FALSE, modTime, TRUE)

\* a step of the Post that runs in p, its doRoll goroutine included
PostOf(p) ==
  \/ PostChunk(p)
  \/ PostMkdirAll(p)
  \/ PostWriteFile(p)
  \/ PostWrite(p)
  \/ PostErr(p)
  \/ \E n \in Rands : PostDone(p, n)
  \/ PostMetaMkdirAll(p)
  \/ PostCreate(p)
  \/ PostWriteString(p)
  \/ PostFinish(p)

\* Posts only, one at a time, of bodies that end in EOF or in an error
NextPosts ==
  \/ PostSteps
  \/ \E p \in Procs, name \in Names, body \in Bodies, fails \in BOOLEAN,
        modTime \in ModTimes : PostBegin(p, name, body, fails, modTime, FALSE)

\* Posts and Deletes only, one at a time: the calls that change the store
NextStore ==
  \/ Steps
  \/ \E p \in Procs, name \in Names, body \in Bodies, fails \in BOOLEAN,
        modTime \in ModTimes : PostBegin(p, name, body, fails, modTime, FALSE)
  \/ \E p \in Procs, name \in CallNames : DeleteFile(p, name, FALSE)

\* The files a Post without error leaves: f with the chunk files of chunks
RECURSIVE WithChunks(_, _)
WithChunks(f, chunks) ==
  IF chunks = <<>> THEN f
  ELSE LET chunkpath == HexPath(Head(chunks).hash)
           dirs == MkdirAll(f, Dir(chunkpath)).fs
       IN WithChunks(Put(dirs, chunkpath, FileNode(Head(chunks).content, Now)),
                     Tail(chunks))

\* ... and with the metadata file at filepath
Uploaded(f, filepath, body, modTime) ==
  LET chunks == ChunksOf(body)
      content == Join([i \in 1..Len(chunks) |-> chunks[i].hash])
  IN Put(MkdirAll(WithChunks(f, chunks), Dir(filepath)).fs, filepath,
         FileNode(content, modTime))

\* the upload the store holds when it is opened
UpName == <<"a", "x">>
UpBody == SplitHead \o <<8>>
UpPath == randomPath(UpName, 0)

\* The store is opened over the files that Post(UpName, UpBody, 1) left.
InitOpen ==
  /\ lab = NoLab
  /\ fst = NoFst
  /\ fs = Uploaded(<<>>, UpPath, UpBody, 1)
  /\ pc = [p \in Procs |-> "idle"]
  /\ dr = [p \in Procs |-> Idle]
  /\ post = [p \in Procs |-> NoPost]
  /\ del = [p \in Procs |-> NoDel]
  /\ rdr = [p \in Procs |-> NoReader]
  /\ cl = [p \in Procs |-> NoClient]
  /\ ret = [p \in Procs |-> NoRet]
  /\ ops = 0
  /\ faults = 0
  /\ blocked = 0
  /\ okPosts = Put(<<>>, NewPath(UpPath), [body |-> UpBody, mtime |-> 1, n |-> 1])
  /\ gone = {}
  /\ stored = {UpBody}

\* Gets, the Reads on their readers, and Deletes, interleaved
NextOpen ==
  \/ \E p \in Procs, name \in CallNames : Get(p, name, TRUE)
  \/ \E p \in Procs, size \in BufSizes : ReadCall(p, size, TRUE)
  \/ \E p \in Procs : Close(p, TRUE)
  \/ \E p \in Procs, name \in CallNames : DeleteFile(p, name, TRUE)
  \/ \E p \in Procs : DeleteDir(p)
  \/ \E p \in Procs : DeletePrune(p)

\* the calls one at a time, Get and Delete also with names of fewer than
\* two characters
NextShort ==
  \/ Steps
  \/ \E p \in Procs, name \in Names, body \in Bodies, fails \in BOOLEAN,
        modTime \in ModTimes : PostBegin(p, name, body, fails, modTime, FALSE)
  \/ \E p \in Procs, name \in CallNames \cup ShortNames : DeleteFile(p, name, FALSE)
  \/ \E p \in Procs, name \in CallNames \cup ShortNames : Get(p, name, FALSE)
  \/ \E p \in Procs : Close(p, FALSE)

\* the scheduler lets every goroutine that can run do so in the end
Fairness == \A p \in Procs : WF_vars(PostOf(p))

\* Posts only, interleaved, under every name
NextNames ==
  \/ PostSteps
  \/ \E p \in Procs, name \in Names \cup OddNames, body \in Bodies,
        fails \in BOOLEAN, modTime \in ModTimes :
        PostBegin(p, name, body, fails, modTime, TRUE)

Spec == Init /\ [][Next]_vars
SpecPar == Init /\ [][NextPar]_vars
SpecNames == Init /\ [][NextNames]_vars
SpecRoll == InitRoll /\ [][NextRoll]_vars
SpecEq == InitEq /\ [][NextEq]_vars
SpecHttp == InitHttp /\ [][NextHttp]_vars
SpecPuts == InitPuts /\ [][NextPuts]_vars
SpecPosts == Init /\ [][NextPosts]_vars
SpecStore == Init /\ [][NextStore]_vars
SpecShort == Init /\ [][NextShort]_vars
SpecOpen == InitOpen /\ [][NextOpen]_vars
SpecFair == SpecPosts /\ Fairness

TypeOK ==
  /\ \A q \in DOMAIN fs : IsDir(fs, Dir(q))
  /\ ops <= MaxOps
  /\ faults <= MaxFaults

(***************************************************************************)
(* Properties.                                                             *)
(***************************************************************************)
IsPrefix(a, b) == Len(a) <= Len(b) /\ a = SubSeq(b, 1, Len(a))

\* the chunk files and their bytes
ChunkFiles ==
  [q \in {q \in DOMAIN fs : Len(q) = 2 /\ fs[q].kind = "file"} |-> fs[q].data]

\* the reader of p came from Get of a live PID and no Seek was made on it
Reading(p) == pc[p] = "open" /\ cl[p].known /\ cl[p].sought < 0

\* Reads deliver the stream in order and end it with io.EOF, nothing else
ReadsAll(p) ==
  /\ IsPrefix(cl[p].got, cl[p].want)
  /\ cl[p].op = "Read" => cl[p].err \in {"nil", "EOF"}
  /\ cl[p].err = "EOF" => cl[p].got = cl[p].want

\* C1: after Post(name, B, t) returned a PID, Get of the PID succeeds with
\* mtime t, and repeated Reads up to end-of-stream yield exactly B.
RoundTrip ==
  \A p \in Procs :
    /\ ret[p].op = "Get" /\ ret[p].live =>
         ret[p].err = "nil" /\ ret[p].modTime = cl[p].wantTime
    /\ Reading(p) => ReadsAll(p)

\* C2: a Post that returns an error leaves no metadata file of its own; a
\* metadata file a Post leaves comes with a PID, no error, and Get works.
PostAllOrNothing ==
  \A p \in Procs :
    ret[p].op = "Post" /\ ret[p].made =>
      /\ ret[p].err # "nil" => ~Exists(fs, ret[p].path)
      /\ Exists(fs, ret[p].path) =>
           /\ ret[p].err = "nil"
           /\ ret[p].newpath = NewPath(ret[p].path)
           /\ CanRead(fs, ret[p].path)
           /\ newChunkedReader(fs, ret[p].path).err = "nil"

\* C3: every digest listed in a metadata record has a chunk file that is
\* readable, not empty, and whose SHA-256 is the digest.
ChunkIntegrity ==
  \A q \in DOMAIN fs :
    Len(q) = 3 /\ fs[q].kind = "file" =>
      \A i \in 1..Len(Lines(fs, q)) :
        LET hash == Lines(fs, q)[i]
        IN hash # <<>> =>
             /\ CanRead(fs, HexPath(hash))
             /\ Len(fs[HexPath(hash)].data) > 0
             /\ Sha256(fs[HexPath(hash)].data) = hash[1].tl

\* a step of Delete(name) in process p
DeleteStep(p) ==
  \/ pc[p] = "idle" /\ pc'[p] = "rmdir"
  \/ pc[p] = "idle" /\ ret'[p].op = "Delete"
  \/ pc[p] \in {"rmdir", "prune"}

\* C4: no step of Delete, whatever its name argument, changes the set of
\* chunk files or the bytes of one.
DeleteKeepsChunks ==
  [][(\E p \in Procs : DeleteStep(p)) => ChunkFiles' = ChunkFiles]_vars

\* C5: once Delete(PID) succeeded, Get(PID) reports not-found, and Get of
\* any other live PID succeeds and reading it gives the bytes posted.
DeleteIsolation ==
  \A p \in Procs :
    ret[p].op = "Get" =>
      /\ ret[p].wasGone /\ Len(ret[p].name) = 2 => ret[p].err = "ENOENT"
      /\ ret[p].live /\ (\E g \in gone : Len(g) = 2 /\ g # ret[p].name) =>
           /\ ret[p].err = "nil"
           /\ Reading(p) => ReadsAll(p)

\* a step of the Post running in p
PostStep(p) == post[p] # NoPost /\ (pc'[p] # pc[p] \/ post'[p] # post[p])

\* the only paths a step may add: the metadata file and its directories
OwnPaths(p) ==
  {post[p].filepath, Dir(post[p].filepath), Dir(Dir(post[p].filepath))}

\* C6: a Post of a body that an earlier Post stored (Gets and Deletes of
\* PIDs may lie between the two) never gets to write a chunk: its steps
\* leave the chunk files as they are, change no existing entry but its own
\* metadata file, and add nothing but that file and its directories.
Dedup ==
  [][\A p \in Procs :
       PostStep(p) /\ post[p].dup /\ post[p].body \in stored =>
         /\ pc'[p] \notin {"mkdir", "write", "writing"}
         /\ ChunkFiles' = ChunkFiles
         /\ \A q \in DOMAIN fs :
              q \in DOMAIN fs' /\ (fs'[q] = fs[q] \/ q = post[p].filepath)
         /\ \A q \in DOMAIN fs' : q \in DOMAIN fs \/ q \in OwnPaths(p)]_vars

\* a second Post of a two-chunk body has returned its PID
DedupDone ==
  \E p \in Procs :
    /\ ret[p].op = "Post" /\ ret[p].err = "nil" /\ ret[p].dup
    /\ \E a, b \in DOMAIN okPosts :
         /\ a # b
         /\ b = ret[p].newpath
         /\ okPosts[a].body = okPosts[b].body
         /\ Len(ChunksOf(okPosts[b].body)) = 2
         /\ Cardinality(DOMAIN ChunkFiles) = 2

\* C7: no Post creates its metadata file over an existing record, also
\* when two Posts draw the same path, and no PID is returned twice.
UniquePIDs ==
  /\ \A q \in DOMAIN fs : Cardinality(fs[q].fds) <= 1
  /\ \A pid \in DOMAIN okPosts : okPosts[pid].n <= 1

\* C8: a Read that returns n bytes moves the reader's position on by n and
\* a Seek leaves the position at the offset it returns.
PositionPersists ==
  [][\A p \in Procs :
       pc[p] = "open" /\ cl'[p].reads = cl[p].reads + 1 =>
         /\ cl'[p].op = "Read" => rdr'[p].off = rdr[p].off + cl'[p].n
         /\ cl'[p].op = "Seek" => rdr'[p].off = cl'[p].n]_vars

\* C9: Seek to the offset o of the stream returns o, whatever the whence,
\* and the Reads after it return the bytes of B from o on.
SeekCorrect ==
  \A p \in Procs :
    pc[p] = "open" /\ cl[p].known /\ cl[p].sought >= 0 =>
      /\ cl[p].op = "Seek" => cl[p].n = cl[p].sought /\ cl[p].err = "nil"
      /\ cl[p].op = "Read" =>
           /\ cl[p].sought + Len(cl[p].got) <= Len(cl[p].want)
           /\ cl[p].got = SubSeq(cl[p].want, cl[p].sought + 1,
                                 cl[p].sought + Len(cl[p].got))

\* C10: the record of an empty upload lists one digest, the SHA-256 of the
\* empty string; Get succeeds and a Read gives no byte and end-of-stream.
EmptyUpload ==
  /\ \A pid \in DOMAIN okPosts :
       okPosts[pid].body = <<>> =>
         /\ CanRead(fs, NamePath(pid))
         /\ Lines(fs, NamePath(pid)) = <<chunkit(<<>>).hash>>
  /\ \A p \in Procs :
       ret[p].op = "Get" /\ ret[p].live /\ cl[p].want = <<>> =>
         /\ ret[p].err = "nil"
         /\ cl[p].op = "Read" /\ cl[p].size > 0 =>
              cl[p].n = 0 /\ cl[p].err = "EOF"

\* C11: the PID a Post returns is the hex of the RID it drew, a separator
\* and the last component of name; its metadata file is the file at
\* root/<RID[0:2]>/<RID[2:64]>/<basename>, the path Get and Delete derive
\* from the PID.
PIDShape ==
  \A p \in Procs :
    ret[p].op = "Post" /\ ret[p].err = "nil" =>
      \E n \in Rands :
        LET RID == EncodeToString(RandomBytes(n))
            basename == Base(ret[p].name)
        IN /\ ret[p].path = <<RID.hd, RID.tl, basename>>
           /\ IsFile(fs, ret[p].path)
           /\ ret[p].newpath = <<RID, basename>>
           /\ NamePath(ret[p].newpath) = ret[p].path

\* C12: once sum(0, len) and sum(offset, len) have both rolled at least
\* windowSize bytes, they are the same digest: the bytes before the last
\* windowSize ones do not count.
WindowLocality ==
  lab.len - lab.offset >= windowSize => Digest(lab.a.rs) = Digest(lab.b.rs)

\* both sums cover a window, and bytes that are not zero came before it
LocalityReached ==
  /\ lab.len - lab.offset >= windowSize
  /\ lab.offset > 0
  /\ \E i \in 1..lab.offset : lab.buf[i] # 0
  /\ lab.a.rs.wofs # lab.b.rs.wofs

\* lines 172-174: the chunks of the chunker c if its input ends at position
\* at: the ones it sent and the one of its contentBuf
AtEOF(c, at) == Append(c.sent, [hash |-> chunkit(c.contentBuf).hash, end |-> at])

\* the positions where chunks end
Boundaries(chunks) == {chunks[i].end : i \in 1..Len(chunks)}

\* the chunks that begin at or after position from
After(chunks, from) ==
  LET first == {i \in 1..Len(chunks) : i = 1 \/ chunks[i - 1].end < from}
  IN SubSeq(chunks, Cardinality(first) + 1, Len(chunks))

\* the digests of chunks
Hashes(chunks) == [i \in 1..Len(chunks) |-> chunks[i].hash]

\* C13: with prefix = buf[0:offset] and B = buf[offset:len], the chunk
\* boundaries of prefix||B at or beyond |prefix| + windowSize are those of
\* B at or beyond windowSize, shifted by |prefix|, and the chunks of B
\* after its first boundary past windowSize are the last chunks of
\* prefix||B, digests included.
BoundaryStability ==
  lab.len >= lab.offset =>
    LET whole == AtEOF(lab.a, lab.len)
        body == AtEOF(lab.b, lab.len - lab.offset)
        tail == Hashes(After(body, windowSize))
        all == Hashes(whole)
    IN /\ {x \in Boundaries(whole) : x >= lab.offset + windowSize}
            = {y + lab.offset : y \in {y \in Boundaries(body) : y >= windowSize}}
       /\ Len(tail) <= Len(all)
       /\ tail = SubSeq(all, Len(all) - Len(tail) + 1, Len(all))

\* B has a split past windowSize and a chunk of some bytes after it, and
\* the prefix holds a split of its own
StabilityReached ==
  /\ lab.offset > 0
  /\ \E i \in 1..Len(lab.a.sent) : lab.a.sent[i].end <= lab.offset
  /\ \E i \in 1..Len(lab.b.sent) : lab.b.sent[i].end >= windowSize
  /\ lab.b.contentBuf # <<>>
  /\ Len(After(AtEOF(lab.b, lab.len - lab.offset), windowSize)) > 0
  /\ Len(AtEOF(lab.a, lab.len)) > Len(AtEOF(lab.b, lab.len - lab.offset))
\* C14: given the same calls and the same bytes from rand.Read, the fsStore
\* and the dedupStore return the same PIDs, succeed and fail alike, return
\* the same mtimes, and their readers yield the same bytes.
BackendEquivalence ==
  (fst.on /\ Synced) =>
    \A p \in Procs :
      ret[p].op # "none" /\ pc[p] \in {"idle", "open"} =>
        /\ fst.ret.op = ret[p].op
        /\ (fst.ret.err = "nil") = (ret[p].err = "nil")
        /\ fst.ret.err = "nil" /\ ret[p].op = "Post" =>
             fst.ret.newpath = ret[p].newpath
        /\ fst.ret.err = "nil" /\ ret[p].op = "Get" =>
             fst.ret.modTime = ret[p].modTime
        /\ pc[p] = "open" => /\ fst.got = cl[p].got
                             /\ fst.n = cl[p].n
\* C15: a POST that passes check and whose Post on the store succeeds is
\* answered 201 with the Location "/?name=" followed by the PID the store
\* returned, the RID, the separator and the name; when Post fails the
\* answer is 500 without a Location.
UploadResponse ==
  LET resp == fst.resp
  IN resp.method = "POST" /\ resp.valid =>
       IF resp.err = "nil"
       THEN /\ resp.status = 201
            /\ resp.location = <<"/?name=", resp.stored>>
            /\ \E n \in Rands :
                 resp.stored = <<EncodeToString(RandomBytes(n)), Base(resp.name)>>
       ELSE /\ resp.status = 500
            /\ resp.location = NoHeader

\* a POST was answered 201, and a POST whose Post failed was answered
\* before it
UploadAnswered ==
  /\ fst.resp.method = "POST"
  /\ fst.resp.status = 201
  /\ fst.reqs > Cardinality(DOMAIN fst.up)
  /\ \E q \in DOMAIN fst.fs : Len(q) = 3 /\ NewPath(q) \notin DOMAIN fst.up

\* C16: GET and HEAD of a name the store does not know are answered 404;
\* GET and HEAD of the PID of the Location of an upload are answered 200
\* with the Content-Length of the uploaded size and the RID as Etag, GET
\* with the uploaded bytes as body and HEAD without body.
DownloadResponse ==
  LET resp == fst.resp
  IN resp.method \in Methods /\ resp.valid =>
       IF resp.name \in DOMAIN fst.up
       THEN /\ resp.status = 200
            /\ resp.length = <<Len(fst.up[resp.name])>>
            /\ resp.etag = resp.name[1]
            /\ resp.body = IF resp.method = "GET" THEN fst.up[resp.name] ELSE <<>>
       ELSE resp.status = 404
\* the bytes of the chunks a list of digests names, one after the other
RECURSIVE Preimages(_)
Preimages(chunkList) ==
  IF chunkList = <<>> THEN <<>>
  ELSE Head(chunkList)[1].tl.pre \o Preimages(Tail(chunkList))

\* C17: Post creates its metadata file only after it has received every
\* chunk of its body from doRoll, each of them found present or written;
\* while the metadata file of a Post exists no chunk of that Post is being
\* written or waited for.
CommitOrdering ==
  /\ [](\A p \in Procs :
         post[p].made => /\ pc[p] \in {"wstr", "finish"}
                         /\ dr[p].at = "closed")
  /\ [][\A p \in Procs :
         ~post[p].made /\ post'[p].made =>
           /\ dr[p].at = "closed"
           /\ post[p].chunkList = Hashes(ChunksOf(post[p].body))
           /\ Preimages(post[p].chunkList) = post[p].body
           /\ \A i \in 1..Len(post[p].chunkList) :
                IsFile(fs, HexPath(post[p].chunkList[i]))]_vars

\* the metadata file of a Post of two chunks, both written by it, exists
CommitReached ==
  \E p \in Procs :
    /\ post[p].made
    /\ Len(post[p].chunkList) = 2
    /\ ~post[p].dup
    /\ IsFile(fs, post[p].filepath)
\* C18: two Posts that run at the same time and store a chunk of the same
\* digest both succeed (unless rand.Read gives both the same bytes), and
\* once a Post has created its metadata file the files of its chunks hold
\* the bytes their digests are the digests of.
ConcurrentPuts ==
  \A p \in Procs :
    /\ ret[p].op = "Post" => ret[p].err \in {"nil", "File already exists"}
    /\ post[p].made =>
         \A i \in 1..Len(post[p].chunkList) :
           LET hash == post[p].chunkList[i]
           IN IsFile(fs, HexPath(hash)) /\ fs[HexPath(hash)].data = hash[1].tl.pre
\* C19: when Post returns because MkdirAll or WriteFile of a chunk failed,
\* its doRoll goroutine ends: no goroutine is left blocked on a send that
\* nobody will receive.
ProducerCancelled == blocked = 0

\* C20: under fair scheduling every Post returns, whether its body ends in
\* EOF or in an error; a Post that has not returned can always take a
\* step; and doRoll has closed done before the metadata file is written.
PostTerminates ==
  /\ \A p \in Procs : (pc[p] # "idle") ~> (pc[p] = "idle")
  /\ [](\A p \in Procs : pc[p] # "idle" => ENABLED PostOf(p))
  /\ [](\A p \in Procs : pc[p] \in {"create", "wstr", "finish"} => dr[p].at = "closed")

\* a Post of two chunks has returned its PID, after a Post that returned
\* an error
PostsReturned ==
  /\ \E p \in Procs : /\ ret[p].op = "Post" /\ ret[p].err = "nil"
                       /\ Len(ChunksOf(ret[p].body)) = 2
  /\ faults > 0
  /\ ops > Cardinality(DOMAIN okPosts)

\* the digests of the chunks doRoll sends before the end of the input
SplitHashes(body) ==
  LET chunks == ChunksOf(body)
  IN Hashes(SubSeq(chunks, 1, Len(chunks) - 1))

\* C21: while the read of its body is to fail a Post has no metadata file;
\* when doRoll sends the error Post has received the chunks that end at a
\* split and no other, the bytes buffered after the last split are sent
\* by nobody, and Post returns the error and changes no file.
ReadError ==
  /\ [](\A p \in Procs :
         dr[p].fails => ~post[p].made /\ post[p].filepath = <<>>)
  /\ [][\A p \in Procs :
         dr[p].at = "errors" /\ pc[p] = "select" /\ pc'[p] # pc[p] =>
           /\ post[p].chunkList = SplitHashes(post[p].body)
           /\ ret'[p].op = "Post" /\ ret'[p].err = "read"
           /\ ret'[p].newpath = <<>>
           /\ dr'[p] = Idle
           /\ fs' = fs /\ okPosts' = okPosts]_vars

\* a Post has returned the error of a read that failed one byte after a
\* split: the chunk before the split is stored, the byte is not
ReadErrorReturned ==
  \E p \in Procs :
    /\ ret[p].op = "Post" /\ ret[p].err = "read"
    /\ ret[p].body = SplitHead \o <<8>>
    /\ DOMAIN ChunkFiles = {HexPath(chunkit(SplitHead).hash)}
    /\ \A q \in DOMAIN fs : Len(q) < 3

\* the positions of body, from i on, where OnSplit is true after rolling
\* the byte; rs is the RollSum of the bytes before i
RECURSIVE SplitsFrom(_, _, _)
SplitsFrom(rs, body, i) ==
  IF i > Len(body) THEN {}
  ELSE LET rolled == Roll(rs, body[i])
       IN (IF OnSplit(rolled) THEN {i} ELSE {}) \cup SplitsFrom(rolled, body, i + 1)

SplitsOf(body) == SplitsFrom(NewRollSum, body, 1)

\* body cut after each position of splits and at its end, from from on
RECURSIVE Pieces(_, _, _)
Pieces(body, splits, from) ==
  LET next == {i \in splits : i > from}
  IN IF next = {} THEN <<SubSeq(body, from + 1, Len(body))>>
     ELSE LET end == CHOOSE i \in next : \A j \in next : i <= j
          IN <<SubSeq(body, from + 1, end)>> \o Pieces(body, splits, end)

\* the digest list of pieces: the hex of the SHA-256 of each
Digests(pieces) ==
  [i \in 1..Len(pieces) |-> <<EncodeToString(Sha256(pieces[i]))>>]

\* C22: the chunks doRoll sends are the pieces of the body between the
\* positions where OnSplit is true after rolling the byte, and one more
\* that ends at EOF; the list Post records is the SHA-256 of the chunks
\* received so far, in that order, and of all of them when done is closed;
\* the chunks joined give the body.
ChunkPartition ==
  \A p \in Procs :
    post[p] # NoPost =>
      LET body == post[p].body
          pieces == Pieces(body, SplitsOf(body), 0)
          digests == Digests(pieces)
          k == Len(post[p].chunkList)
      IN /\ k <= Len(pieces)
         /\ post[p].chunkList = SubSeq(digests, 1, k)
         /\ dr[p].at = "chunks" =>
              /\ k < Len(pieces)
              /\ dr[p].chunk.content = pieces[k + 1]
              /\ dr[p].chunk.hash = digests[k + 1]
         /\ dr[p].at = "closed" =>
              /\ post[p].chunkList = digests
              /\ Preimages(post[p].chunkList) = body

\* Post has received the two chunks of a body with a split inside, and
\* done is closed
PartitionDone ==
  \E p \in Procs :
    /\ dr[p].at = "closed"
    /\ post[p].body = SplitHead \o <<8>>
    /\ SplitsOf(post[p].body) = {25}
    /\ Len(post[p].chunkList) = 2

\* C23: a Read into a buffer longer than the bytes that remain from the
\* reader's position returns the number of the bytes that remain, all of
\* them copied, and not 0.
ShortRead ==
  [][\A p \in Procs :
       LET remaining == Len(cl[p].want) - rdr[p].off
       IN /\ pc[p] = "open" /\ cl[p].known
          /\ cl'[p].reads = cl[p].reads + 1 /\ cl'[p].op = "Read"
          /\ remaining > 0 /\ cl'[p].size > remaining
          => cl'[p].n = remaining]_vars

\* C24: no Seek returns an error; after a Seek to an offset that is not
\* below the size of the stream a Read into a buffer that is not empty
\* returns no byte and end-of-stream or the invalid-offset error; no Read
\* indexes outside the chunk list or the bytes of a chunk.
OutOfRange ==
  \A p \in Procs :
    pc[p] = "open" =>
      /\ cl[p].op = "Seek" => cl[p].err = "nil"
      /\ cl[p].op = "Read" => cl[p].err # "panic"
      /\ cl[p].known /\ cl[p].sought >= Len(cl[p].want)
         /\ cl[p].op = "Read" /\ cl[p].size > 0 =>
           cl[p].n = 0 /\ cl[p].err \in {"EOF", "Invalid offset"}

\* the step is a call of Get in process p
GetStep(p) == pc[p] = "idle" /\ ops' = ops + 1 /\ ret'[p].op = "Get"

\* every string of chunks names a chunk file that exists
Present(f, chunks) ==
  \A i \in 1..Len(chunks) : chunks[i] # <<>> /\ IsFile(f, HexPath(chunks[i]))

\* C25: Get of a metadata file whose listed chunks all exist returns a
\* reader over the list, with chunkOffsets of length n+1 that starts at 0
\* and grows by the size of each chunk file; if a listed chunk is missing
\* newChunkedReader fails and Get returns its error.
ReaderConstruction ==
  [][\A p \in Procs :
       GetStep(p) /\ Len(ret'[p].name) = 2 /\ CanRead(fs, NamePath(ret'[p].name)) =>
         LET chunks == Split(fs[NamePath(ret'[p].name)].data)
             n == Len(chunks)
             offsets == rdr'[p].chunkOffsets
         IN IF Present(fs, chunks)
            THEN /\ ret'[p].err = "nil" /\ pc'[p] = "open"
                 /\ rdr'[p].chunks = chunks
                 /\ Len(offsets) = n + 1
                 /\ offsets[1] = 0
                 /\ \A i \in 1..n :
                      offsets[i + 1] = offsets[i] + Len(fs[HexPath(chunks[i])].data)
            ELSE /\ ret'[p].err \notin {"nil", "panic"}
                 /\ pc'[p] = "idle" /\ rdr'[p] = rdr[p]]_ops

\* the entries of f below the directory dir
Below(f, dir) ==
  {q \in DOMAIN f : Len(q) > Len(dir) /\ SubSeq(q, 1, Len(dir)) = dir}

\* C26: the steps of Delete(PID) remove the metadata file, then its RID
\* directory, then the fan-out directory if nothing is below it, and
\* nothing else: every other entry is left as it is, none is added, and a
\* Delete that returns no error leaves neither the file nor the RID
\* directory.
DeletePruning ==
  [][\A p \in Procs :
       LET name == IF pc[p] = "idle" THEN ret'[p].name ELSE del[p].name
           started == pc[p] = "idle" /\ pc'[p] = "rmdir"
           filepath == NamePath(IF started THEN del'[p].name ELSE name)
           rid == Dir(filepath)
           fanout == Dir(rid)
       IN DeleteStep(p) /\ (started \/ Len(name) = 2) /\ Len(filepath) = 3 =>
            /\ DOMAIN fs' \subseteq DOMAIN fs
            /\ \A q \in DOMAIN fs \ {filepath, rid, fanout} :
                 q \in DOMAIN fs' /\ fs'[q] = fs[q]
            /\ \A q \in DOMAIN fs \ DOMAIN fs' : Below(fs, q) = {}
            /\ pc[p] = "idle" => DOMAIN fs \ DOMAIN fs' \subseteq {filepath}
            /\ pc[p] = "rmdir" => DOMAIN fs \ DOMAIN fs' \subseteq {rid}
            /\ pc[p] = "prune" => DOMAIN fs \ DOMAIN fs' \subseteq {fanout}
            /\ pc[p] = "prune" /\ Below(fs, fanout) = {} => fanout \notin DOMAIN fs'
            /\ pc'[p] = "idle" /\ ret'[p].err = "nil" =>
                 /\ filepath \notin DOMAIN fs'
                 /\ rid \notin DOMAIN fs']_<<fs, pc>>

\* Delete of a PID that a Post returned has returned no error and has
\* left the fan-out directory of the PID, which holds a chunk file
DeletePruned ==
  \E p \in Procs :
    /\ ret[p].op = "Delete" /\ ret[p].err = "nil" /\ Len(ret[p].name) = 2
    /\ faults = 0 /\ ret[p].name \in gone
    /\ LET fanout == Dir(Dir(NamePath(ret[p].name)))
       IN /\ IsDir(fs, fanout)
          /\ \E q \in DOMAIN ChunkFiles : Dir(q) = fanout
          /\ Dir(NamePath(ret[p].name)) \notin DOMAIN fs

\* C27: Get and Delete of a name of fewer than two characters return the
\* invalid-name error and change no file; neither of them crashes.
ShortPID ==
  [][\A p \in Procs :
       /\ pc[p] = "idle" /\ ret'[p].op \in {"Get", "Delete"}
       /\ TooShort(ret'[p].name)
       => /\ ret'[p].err = "Invalid name"
          /\ pc'[p] = "idle"
          /\ fs' = fs]_ops

\* C28: a reader that Get(PID) returned goes on giving the bytes posted,
\* in order and up to end-of-stream, while a Delete(PID) runs and after it
\* has returned; the chunk files of the reader are there and hold their bytes.
ReaderOutlivesDelete ==
  \A p \in Procs :
    /\ Reading(p)
    /\ \/ ret[p].name \in gone
       \/ \E q \in Procs : pc[q] \in {"rmdir", "prune"} /\ del[q].name = ret[p].name
    => /\ ReadsAll(p)
       /\ \A i \in 1..Len(rdr[p].chunks) :
            LET hash == rdr[p].chunks[i]
            IN /\ IsFile(fs, HexPath(hash))
               /\ Sha256(fs[HexPath(hash)].data) = hash[1].tl

\* C29: Get returns a reader without error only for a PID that a
\* successful Post returned and no Delete removed since; for every other
\* name it returns an error, and it does not crash; no Get changes a file.
GetOnlyLive ==
  /\ [](\A p \in Procs :
         ret[p].op = "Get" =>
           /\ ret[p].err = "nil" => ret[p].live
           /\ ~ret[p].live => ret[p].err \notin {"nil", "panic"})
  /\ [][\A p \in Procs : GetStep(p) => fs' = fs]_ops
====
